---- MODULE Spec2Model ----
(***************************************************************************)
(* Model of the quiz page controller of script.js (initQuizPage).          *)
(*                                                                         *)
(* The state is the closure state of initQuizPage (questions,              *)
(* currentIndex, answers, timerSeconds, the interval iv), the DOM elements *)
(* the controller writes, the requests it has sent to /submit and the      *)
(* browser location.  Every event handler is one action.                   *)
(*                                                                         *)
(* Option texts are sequences of one-character strings so that escapeHtml  *)
(* and the browser's reading of the value attribute are computed, not      *)
(* assumed.  Option texts are non-empty: both forms that create questions  *)
(* refuse empty options (script.js lines 268 and 317).                     *)
(***************************************************************************)
EXTENDS Integers, Sequences, FiniteSets, TLC

(* ------------------------------ bounds --------------------------------- *)

MaxQuestions == 2

NumOptions == 2

MaxDuration == 2

MaxSubmitClicks == 2

MaxLength == 200

MaxSeconds == 3700

MaxRows == 2

MaxLists == 2

MaxMutations == 1

(* --------------------------- program constants ------------------------- *)

UrgentBelow == 30

(* ------------------------------ strings -------------------------------- *)

Null == <<"null">>

amp == <<"&", "a", "m", "p", ";">>

lt == <<"&", "l", "t", ";">>

gt == <<"&", "g", "t", ";">>

quot == <<"&", "q", "u", "o", "t", ";">>

RECURSIVE replaceAll(_, _, _)
replaceAll(s, c, r) ==
    IF s = <<>> THEN <<>>
    ELSE (IF Head(s) = c THEN r ELSE <<Head(s)>>) \o replaceAll(Tail(s), c, r)

escapeHtmlAmpLast(str) ==
    IF str = Null THEN <<>>
    ELSE replaceAll(replaceAll(replaceAll(replaceAll(str, "<", lt), ">", gt), "\"", quot), "&", amp)

escapeHtml(str) ==
    IF str = Null THEN <<>>
    ELSE replaceAll(replaceAll(replaceAll(replaceAll(str, "&", amp), "<", lt), ">", gt), "\"", quot)

StartsWith(s, p) == Len(s) >= Len(p) /\ SubSeq(s, 1, Len(p)) = p

Drop(s, n) == SubSeq(s, n + 1, Len(s))

RECURSIVE UpToQuote(_)
UpToQuote(s) ==
    IF s = <<>> \/ Head(s) = "\"" THEN <<>>
    ELSE <<Head(s)>> \o UpToQuote(Tail(s))

RECURSIVE DecodeEntities(_)
DecodeEntities(s) ==
    IF s = <<>> THEN <<>>
    ELSE IF StartsWith(s, amp) THEN <<"&">> \o DecodeEntities(Drop(s, Len(amp)))
    ELSE IF StartsWith(s, lt) THEN <<"<">> \o DecodeEntities(Drop(s, Len(lt)))
    ELSE IF StartsWith(s, gt) THEN <<">">> \o DecodeEntities(Drop(s, Len(gt)))
    ELSE IF StartsWith(s, quot) THEN <<"\"">> \o DecodeEntities(Drop(s, Len(quot)))
    ELSE <<Head(s)>> \o DecodeEntities(Tail(s))

RadioValueRaw(opt) == UpToQuote(escapeHtml(opt))

RadioValue(opt) == DecodeEntities(UpToQuote(escapeHtml(opt)))

(* ----------------------------- questions ------------------------------- *)

OptionPool ==
    << <<"a">>, <<"<", "b", ">">>, <<"&", "l", "t", ";">>, <<"x", "\"", "y">>, <<"c", "&", "d">> >>

PoolOption(n) == OptionPool[((n - 1) % Len(OptionPool)) + 1]

Question(i) ==
    [id |-> 10 + i, options |-> [k \in 1..NumOptions |-> PoolOption(i + k - 1)]]

QuestionList(n) == [i \in 1..n |-> Question(i)]

letters == <<"A", "B", "C", "D">>

(* ------------------------- values read from JS ------------------------- *)

JsArray(items) == [type |-> "array", items |-> items, length |-> Len(items)]

JsString(n) == [type |-> "string", items |-> <<>>, length |-> n]

JsObject == [type |-> "object", items |-> <<>>, length |-> 0]

JsUndefined == [type |-> "undefined", items |-> <<>>, length |-> 0]

Truthy(v) ==
    CASE v.type = "array" -> TRUE
      [] v.type = "object" -> TRUE
      [] v.type = "string" -> v.length > 0
      [] OTHER -> FALSE

HasLength(v) == v.type \in {"array", "string"}

JsRem(a, b) == IF a >= 0 THEN a % b ELSE 0 - ((0 - a) % b)

padStart2(n) == IF 0 <= n /\ n < 10 THEN "0" \o ToString(n) ELSE ToString(n)

formatDurationShortPad(totalSec) ==
    LET h == totalSec \div 3600
        m == JsRem(totalSec, 3600) \div 60
        s == JsRem(totalSec, 60)
    IN  IF h > 0
        THEN ToString(h) \o ":" \o ToString(m) \o ":" \o padStart2(s)
        ELSE ToString(m) \o ":" \o padStart2(s)

formatDuration(totalSec) ==
    LET h == totalSec \div 3600
        m == JsRem(totalSec, 3600) \div 60
        s == JsRem(totalSec, 60)
    IN  IF h > 0
        THEN ToString(h) \o ":" \o padStart2(m) \o ":" \o padStart2(s)
        ELSE ToString(m) \o ":" \o padStart2(s)

(* ------------------------------- inputs -------------------------------- *)

Pages == {"quiz", "home"}

QuizIds == {"", "q7"}

Totals == {0, MaxQuestions}

Durations == (0 - 1)..MaxDuration

LoadResponses ==
    {[kind |-> "reject", questions |-> JsUndefined]}
    \cup {[kind |-> "json", questions |-> v] :
            v \in {JsUndefined, JsObject, JsString(2)}
                  \cup {JsArray(QuestionList(n)) : n \in 0..MaxQuestions}}

SubmitResponses ==
    {[kind |-> "reject", ok |-> FALSE, redirect |-> "", error |-> ""]}
    \cup [kind : {"json"}, ok : BOOLEAN, redirect : {"", "/result"}, error : {"", "Quiz closed"}]

(* -------------------------------- state -------------------------------- *)

(* dataset       document.body.dataset: page, quizId, total, timerSeconds  *)
(* fetchPending  the GET /api/quiz/{id} promise has not settled yet        *)
(* questions, currentIndex, answers, timerSeconds                          *)
(*               the closure variables of initQuizPage                     *)
(* iv            the interval of startTimer is set and not yet cleared     *)
(* questionArea, progressText, progressBar, prevBtn, nextBtn, submitBtn,   *)
(* timerEl       what the controller has written to these DOM elements     *)
(* posts, body   number of POST /submit requests sent, body of the latest  *)
(* awaiting      POST /submit requests whose response is not yet handled   *)
(* alerted       text of the latest alert, "none" before the first         *)
(* location      window.location.href; the page is gone once it changes    *)
(* calc          a utility function under evaluation: its name, its        *)
(*               argument and, once evaluated, its result                  *)
(* filter        value of the #filterSubject select of the admin page      *)
(* table         what the admin controller has put into #questionsBody,    *)
(*               with the list request whose response it renders           *)
(* lists, issued list requests in flight, number of list requests issued   *)
(* sent, lastReq number of mutation requests sent per endpoint, the latest *)
(* pending       mutation requests whose response is not yet handled       *)
(* addForm       field values of #addForm                                  *)
(* csvForm       chosen file of #csvFile and the text of #csvResult        *)
(* dialog        latest alert text and latest answer to confirm()          *)

VARIABLES dataset, fetchPending, questions, currentIndex, answers,
          timerSeconds, iv, questionArea, progressText, progressBar,
          prevBtn, nextBtn, submitBtn, timerEl, posts, body, awaiting, alerted,
          location, calc, filter, table, lists, issued, sent, lastReq, pending,
          addForm, csvForm, dialog

session == <<questions, currentIndex, answers>>

timer == <<timerSeconds, iv, timerEl>>

view == <<questionArea, progressText, progressBar, prevBtn, nextBtn, submitBtn>>

net == <<posts, body, awaiting, alerted, location>>

admin == <<filter, table, lists, issued, sent, lastReq, pending, addForm, csvForm, dialog>>

others == <<calc, admin>>

quiz == <<fetchPending, session, timer, view, net>>

vars == <<dataset, quiz, calc, admin>>

NoCalc == [fn |-> "none", arg |-> <<>>, out |-> "idle"]

NoCounts == [update |-> 0, delete |-> 0, add |-> 0, csv |-> 0]

NoRequest == [url |-> "none"]

EmptyForm ==
    [subject |-> "Physics", difficulty |-> "Medium", question |-> <<>>,
     options |-> <<<<>>, <<>>, <<>>, <<>>>>, answer |-> "A", explanation |-> <<>>]

AdminIdle ==
    /\ filter = "All"
    /\ table = [kind |-> "markup", req |-> 0, rows |-> <<>>]
    /\ lists = {}
    /\ issued = 0
    /\ sent = NoCounts
    /\ lastReq = NoRequest
    /\ pending = NoCounts
    /\ addForm = EmptyForm
    /\ csvForm = [file |-> FALSE, result |-> ""]
    /\ dialog = [alert |-> "none", confirm |-> "none"]

Registered == dataset.page = "quiz" /\ dataset.quizId # "" /\ dataset.total # 0

Alive == Registered /\ location = "/quiz"

Init ==
    /\ dataset \in [page : Pages, quizId : QuizIds, total : Totals, timerSeconds : Durations]
    /\ fetchPending = Registered
    /\ questions = JsArray(<<>>)
    /\ currentIndex = 0
    /\ answers = <<>>
    /\ timerSeconds = dataset.timerSeconds
    /\ iv = FALSE
    /\ questionArea = [kind |-> "markup"]
    /\ progressText = ""
    /\ progressBar = 0
    /\ prevBtn \in [disabled : BOOLEAN]
    /\ nextBtn \in [display : {"", "none"}]
    /\ submitBtn \in [display : {"", "none"}]
    /\ timerEl = [textContent |-> "", urgent |-> FALSE]
    /\ posts = 0
    /\ body = [quiz_id |-> "", answers |-> <<>>]
    /\ awaiting = 0
    /\ alerted = "none"
    /\ location = "/quiz"
    /\ calc = NoCalc
    /\ AdminIdle

(* ------------------------------ rendering ------------------------------ *)

Selected(q, ans) ==
    IF q.id \in DOMAIN ans /\ ans[q.id] # <<>> THEN ans[q.id] ELSE Null

CheckedIndex(q, ans) ==
    LET hits == {i \in 1..Len(q.options) : Selected(q, ans) = q.options[i]}
    IN  IF hits = {} THEN 0 ELSE CHOOSE i \in hits : \A j \in hits : j <= i

Radios(q, ans) ==
    [i \in 1..Len(q.options) |->
        [label |-> IF i <= Len(letters) THEN letters[i] ELSE "undefined",
         value |-> RadioValue(q.options[i]),
         checked |-> i = CheckedIndex(q, ans)]]

(* Math.round(index / length * 100).  The quotient and the product are     *)
(* IEEE doubles: for the pairs of BelowTie (all there are up to length     *)
(* 239) the exact value ends in .5 and the double lies just below it, so   *)
(* Math.round rounds down; everywhere else it is round-half-up of the      *)
(* exact value.                                                            *)
BelowTie ==
    {<<23, 40>>, <<46, 80>>, <<69, 120>>, <<92, 160>>,
     <<29, 200>>, <<57, 200>>, <<113, 200>>, <<115, 200>>}

PercentOfNext(index, length) ==
    (200 * (index + 1) + length) \div (2 * length)

Percent(index, length) ==
    IF <<index, length>> \in BelowTie
    THEN (100 * index) \div length
    ELSE (200 * index + length) \div (2 * length)

renderQuestionSubmitAlways(qs, index, ans) ==
    IF qs.type = "array" /\ index + 1 \in 1..qs.length
    THEN LET q == qs.items[index + 1]
         IN  /\ questionArea' = [kind |-> "question", num |-> index + 1, q |-> q.id,
                                 radios |-> Radios(q, ans)]
             /\ progressText' = "Question " \o ToString(index + 1) \o " of "
                                    \o ToString(qs.length)
             /\ progressBar' = Percent(index, qs.length)
             /\ prevBtn' = [disabled |-> index = 0]
             /\ nextBtn' = [display |-> IF index < qs.length - 1
                                        THEN "inline-flex" ELSE "none"]
             /\ submitBtn' = [display |-> "inline-flex"]
    ELSE UNCHANGED view

renderQuestion(qs, index, ans) ==
    IF qs.type = "array" /\ index + 1 \in 1..qs.length
    THEN LET q == qs.items[index + 1]
         IN  /\ questionArea' = [kind |-> "question", num |-> index + 1, q |-> q.id,
                                 radios |-> Radios(q, ans)]
             /\ progressText' = "Question " \o ToString(index + 1) \o " of "
                                    \o ToString(qs.length)
             /\ progressBar' = Percent(index, qs.length)
             /\ prevBtn' = [disabled |-> index = 0]
             /\ nextBtn' = [display |-> IF index < qs.length - 1
                                        THEN "inline-flex" ELSE "none"]
             /\ submitBtn' = [display |-> IF index = qs.length - 1
                                          THEN "inline-flex" ELSE "none"]
    ELSE UNCHANGED view

updateTimerDisplayLate(seconds) ==
    timerEl' = [textContent |-> formatDuration(seconds),
                urgent |-> timerEl.urgent \/ seconds < UrgentBelow - 1]

updateTimerDisplay(seconds) ==
    timerEl' = [textContent |-> formatDuration(seconds),
                urgent |-> timerEl.urgent \/ seconds < UrgentBelow]

(* ------------------------------- loading ------------------------------- *)

LoadResponse(resp) ==
    /\ Alive
    /\ fetchPending
    /\ fetchPending' = FALSE
    /\ UNCHANGED <<others, dataset, currentIndex, answers, timerSeconds, net>>
    /\ IF resp.kind = "reject"
       THEN /\ questionArea' = [kind |-> "Error loading questions."]
            /\ UNCHANGED <<questions, iv, timerEl, progressText, progressBar,
                           prevBtn, nextBtn, submitBtn>>
       ELSE LET loaded == IF Truthy(resp.questions) THEN resp.questions
                          ELSE JsArray(<<>>)
            IN  /\ questions' = loaded
                /\ IF loaded.type # "array" \/ loaded.length = 0
                   THEN /\ questionArea' = [kind |-> "No questions could be loaded."]
                        /\ UNCHANGED <<iv, timerEl, progressText, progressBar,
                                       prevBtn, nextBtn, submitBtn>>
                   ELSE /\ renderQuestion(loaded, currentIndex, answers)
                        /\ updateTimerDisplay(timerSeconds)
                        /\ iv' = TRUE

(* ------------------------------ submission ----------------------------- *)

Answered(qs, ans) ==
    {i \in 1..Len(qs.items) : qs.items[i].id \in DOMAIN ans /\ ans[qs.items[i].id] # <<>>}

PayloadWithBlanks(qs, ans) ==
    [quiz_id |-> dataset.quizId,
     answers |-> [k \in {ToString(qs.items[i].id) : i \in 1..Len(qs.items)} |->
                    LET i == CHOOSE j \in 1..Len(qs.items) : ToString(qs.items[j].id) = k
                    IN  IF i \in Answered(qs, ans) THEN ans[qs.items[i].id] ELSE <<>>]]

Payload(qs, ans) ==
    LET keys == {ToString(qs.items[i].id) : i \in Answered(qs, ans)}
        last(k) == CHOOSE i \in Answered(qs, ans) :
                       /\ ToString(qs.items[i].id) = k
                       /\ \A j \in Answered(qs, ans) :
                              ToString(qs.items[j].id) = k => j <= i
    IN  [quiz_id |-> dataset.quizId,
         answers |-> [k \in keys |-> ans[qs.items[last(k)].id]]]

submitQuiz ==
    IF questions.type = "array"
    THEN /\ posts' = posts + 1
         /\ body' = Payload(questions, answers)
         /\ awaiting' = awaiting + 1
    ELSE UNCHANGED <<posts, body, awaiting>>

SubmitClick ==
    /\ Alive
    /\ submitBtn.display # "none"
    /\ posts < MaxSubmitClicks
    /\ submitQuiz
    /\ UNCHANGED <<others, dataset, fetchPending, session, timer, view, alerted, location>>

SubmitResponseOkOnly(data) ==
    /\ Alive
    /\ awaiting > 0
    /\ awaiting' = awaiting - 1
    /\ IF data.kind = "json" /\ data.ok
       THEN /\ location' = data.redirect
            /\ UNCHANGED alerted
       ELSE /\ alerted' = IF data.kind = "reject" THEN "Network error while submitting."
                          ELSE IF data.error # "" THEN data.error
                          ELSE "Submission failed."
            /\ UNCHANGED location
    /\ UNCHANGED <<others, dataset, fetchPending, session, timer, view, posts, body>>

SubmitResponse(data) ==
    /\ Alive
    /\ awaiting > 0
    /\ awaiting' = awaiting - 1
    /\ IF data.kind = "json" /\ data.ok /\ data.redirect # ""
       THEN /\ location' = data.redirect
            /\ UNCHANGED alerted
       ELSE /\ alerted' = IF data.kind = "reject" THEN "Network error while submitting."
                          ELSE IF data.error # "" THEN data.error
                          ELSE "Submission failed."
            /\ UNCHANGED location
    /\ UNCHANGED <<others, dataset, fetchPending, session, timer, view, posts, body>>

(* --------------------------------- timer ------------------------------- *)

TickLate ==
    /\ Alive
    /\ iv
    /\ timerSeconds' = timerSeconds - 1
    /\ IF timerSeconds' < 0
       THEN /\ iv' = FALSE
            /\ submitQuiz
            /\ UNCHANGED timerEl
       ELSE /\ updateTimerDisplay(timerSeconds')
            /\ UNCHANGED <<iv, posts, body, awaiting>>
    /\ UNCHANGED <<others, dataset, fetchPending, session, view, alerted, location>>

TickSilent ==
    /\ Alive
    /\ iv
    /\ timerSeconds' = timerSeconds - 1
    /\ IF timerSeconds' <= 0
       THEN /\ iv' = FALSE
            /\ UNCHANGED <<timerEl, posts, body, awaiting>>
       ELSE /\ updateTimerDisplay(timerSeconds')
            /\ UNCHANGED <<iv, posts, body, awaiting>>
    /\ UNCHANGED <<others, dataset, fetchPending, session, view, alerted, location>>

Tick ==
    /\ Alive
    /\ iv
    /\ timerSeconds' = timerSeconds - 1
    /\ IF timerSeconds' <= 0
       THEN /\ iv' = FALSE
            /\ submitQuiz
            /\ UNCHANGED timerEl
       ELSE /\ updateTimerDisplay(timerSeconds')
            /\ UNCHANGED <<iv, posts, body, awaiting>>
    /\ UNCHANGED <<others, dataset, fetchPending, session, view, alerted, location>>

(* ------------------------------ navigation ----------------------------- *)

PrevClick ==
    /\ Alive
    /\ ~prevBtn.disabled
    /\ IF currentIndex > 0
       THEN /\ currentIndex' = currentIndex - 1
            /\ renderQuestion(questions, currentIndex', answers)
       ELSE UNCHANGED <<currentIndex, view>>
    /\ UNCHANGED <<others, dataset, fetchPending, questions, answers, timer, net>>

NextClickUnguarded ==
    /\ Alive
    /\ nextBtn.display # "none"
    /\ currentIndex' = currentIndex + 1
    /\ renderQuestion(questions, currentIndex', answers)
    /\ UNCHANGED <<others, dataset, fetchPending, questions, answers, timer, net>>

NextClick ==
    /\ Alive
    /\ nextBtn.display # "none"
    /\ IF HasLength(questions) /\ currentIndex < questions.length - 1
       THEN /\ currentIndex' = currentIndex + 1
            /\ renderQuestion(questions, currentIndex', answers)
       ELSE UNCHANGED <<currentIndex, view>>
    /\ UNCHANGED <<others, dataset, fetchPending, questions, answers, timer, net>>

(* ------------------------------- answering ----------------------------- *)

SelectOptionForgetful(i) ==
    /\ Alive
    /\ questionArea.kind = "question"
    /\ i \in 1..Len(questionArea.radios)
    /\ ~questionArea.radios[i].checked
    /\ answers' = (questionArea.q :> questionArea.radios[i].value)
    /\ questionArea' = [questionArea EXCEPT
                           !.radios = [j \in 1..Len(questionArea.radios) |->
                                          [questionArea.radios[j] EXCEPT !.checked = (j = i)]]]
    /\ UNCHANGED <<others, dataset, fetchPending, questions, currentIndex, timer, net,
                   progressText, progressBar, prevBtn, nextBtn, submitBtn>>

SelectOption(i) ==
    /\ Alive
    /\ questionArea.kind = "question"
    /\ i \in 1..Len(questionArea.radios)
    /\ ~questionArea.radios[i].checked
    /\ answers' = (questionArea.q :> questionArea.radios[i].value) @@ answers
    /\ questionArea' = [questionArea EXCEPT
                           !.radios = [j \in 1..Len(questionArea.radios) |->
                                          [questionArea.radios[j] EXCEPT !.checked = (j = i)]]]
    /\ UNCHANGED <<others, dataset, fetchPending, questions, currentIndex, timer, net,
                   progressText, progressBar, prevBtn, nextBtn, submitBtn>>

(* ----------------------------- specification --------------------------- *)

Next ==
    \/ \E resp \in LoadResponses : LoadResponse(resp)
    \/ \E i \in 1..NumOptions : SelectOption(i)
    \/ PrevClick
    \/ NextClick
    \/ SubmitClick
    \/ Tick
    \/ \E data \in SubmitResponses : SubmitResponse(data)

Spec == Init /\ [][Next]_vars

(* Further specifications: the page markup starts with Previous disabled   *)
(* and Next and Submit hidden, so that the buttons act only once           *)
(* renderQuestion has shown them (SpecHidden); and, with that markup, the  *)
(* countdown starts just above the urgent threshold (SpecLong).            *)

HiddenMarkup(durations) ==
    /\ dataset \in [page : {"quiz"}, quizId : {"q7"}, total : {MaxQuestions},
                    timerSeconds : durations]
    /\ fetchPending = Registered
    /\ questions = JsArray(<<>>)
    /\ currentIndex = 0
    /\ answers = <<>>
    /\ timerSeconds = dataset.timerSeconds
    /\ iv = FALSE
    /\ questionArea = [kind |-> "markup"]
    /\ progressText = ""
    /\ progressBar = 0
    /\ prevBtn = [disabled |-> TRUE]
    /\ nextBtn = [display |-> "none"]
    /\ submitBtn = [display |-> "none"]
    /\ timerEl = [textContent |-> "", urgent |-> FALSE]
    /\ posts = 0
    /\ body = [quiz_id |-> "", answers |-> <<>>]
    /\ awaiting = 0
    /\ alerted = "none"
    /\ location = "/quiz"
    /\ calc = NoCalc
    /\ AdminIdle

InitHidden == HiddenMarkup(Durations)

SpecHidden == InitHidden /\ [][Next]_vars

InitLong == HiddenMarkup({UrgentBelow + 1})

SpecLong == InitLong /\ [][Next]_vars

(* The timer fires as long as its interval is set: weak fairness of Tick.  *)

SpecLive == InitHidden /\ [][Next]_vars /\ WF_vars(Tick)

(* --------------------------- utility functions ------------------------- *)

(* The progress percentage of renderQuestion and formatDuration, each      *)
(* applied to one argument drawn from a bounded set.                       *)

QuizOff ==
    /\ fetchPending = FALSE
    /\ questions = JsArray(<<>>)
    /\ currentIndex = 0
    /\ answers = <<>>
    /\ timerSeconds = 0
    /\ iv = FALSE
    /\ questionArea = [kind |-> "markup"]
    /\ progressText = ""
    /\ progressBar = 0
    /\ prevBtn = [disabled |-> TRUE]
    /\ nextBtn = [display |-> "none"]
    /\ submitBtn = [display |-> "none"]
    /\ timerEl = [textContent |-> "", urgent |-> FALSE]
    /\ posts = 0
    /\ body = [quiz_id |-> "", answers |-> <<>>]
    /\ awaiting = 0
    /\ alerted = "none"
    /\ location = "/quiz"

QuizIdle ==
    /\ dataset = [page |-> "home", quizId |-> "", total |-> 0, timerSeconds |-> 0]
    /\ QuizOff

InitProgress ==
    /\ QuizIdle
    /\ AdminIdle
    /\ \E length \in 1..MaxLength : \E index \in 0..(length - 1) :
          calc = [fn |-> "Percent", arg |-> <<index, length>>, done |-> FALSE, out |-> 0]

EvalPercent ==
    /\ calc.fn = "Percent"
    /\ ~calc.done
    /\ calc' = [calc EXCEPT !.done = TRUE, !.out = Percent(calc.arg[1], calc.arg[2])]
    /\ UNCHANGED <<dataset, quiz, admin>>

NextProgress == EvalPercent

SpecProgress == InitProgress /\ [][NextProgress]_vars

InitDuration ==
    /\ QuizIdle
    /\ AdminIdle
    /\ \E seconds \in 0..MaxSeconds :
          calc = [fn |-> "formatDuration", arg |-> seconds, done |-> FALSE, out |-> ""]

EvalDuration ==
    /\ calc.fn = "formatDuration"
    /\ ~calc.done
    /\ calc' = [calc EXCEPT !.done = TRUE, !.out = formatDuration(calc.arg)]
    /\ UNCHANGED <<dataset, quiz, admin>>

NextDuration == EvalDuration

SpecDuration == InitDuration /\ [][NextDuration]_vars

(* ------------------------------ admin page ----------------------------- *)

(* Texts of the admin page are sequences of one-character strings, as the  *)
(* option texts of the quiz page.  Subject, difficulty and answer letter   *)
(* are values of select elements and are kept as whole strings.            *)

Whitespace == {" ", "\t", "\n", "\r"}

RECURSIVE LeadingSpace(_)
LeadingSpace(s) ==
    IF s # <<>> /\ Head(s) \in Whitespace THEN 1 + LeadingSpace(Tail(s)) ELSE 0

RECURSIVE Reverse(_)
Reverse(s) == IF s = <<>> THEN <<>> ELSE Append(Reverse(Tail(s)), Head(s))

trim(s) ==
    LET t == Drop(s, LeadingSpace(s))
    IN  SubSeq(t, 1, Len(t) - LeadingSpace(Reverse(t)))

escapeAttr(str) == replaceAll(escapeHtml(str), "'", <<"&", "#", "3", "9", ";">>)

RECURSIVE DecodeAttr(_)
DecodeAttr(s) ==
    IF s = <<>> THEN <<>>
    ELSE IF StartsWith(s, amp) THEN <<"&">> \o DecodeAttr(Drop(s, Len(amp)))
    ELSE IF StartsWith(s, lt) THEN <<"<">> \o DecodeAttr(Drop(s, Len(lt)))
    ELSE IF StartsWith(s, gt) THEN <<">">> \o DecodeAttr(Drop(s, Len(gt)))
    ELSE IF StartsWith(s, quot) THEN <<"\"">> \o DecodeAttr(Drop(s, Len(quot)))
    ELSE IF StartsWith(s, <<"&", "#", "3", "9", ";">>) THEN <<"'">> \o DecodeAttr(Drop(s, 5))
    ELSE <<Head(s)>> \o DecodeAttr(Tail(s))

InputValue(str) == DecodeAttr(UpToQuote(escapeAttr(str)))

CellText(str) == DecodeEntities(escapeHtml(str))

RECURSIVE Concat(_)
Concat(ss) == IF ss = <<>> THEN <<>> ELSE Head(ss) \o Concat(Tail(ss))

OptionsCellText(options) ==
    Concat([i \in 1..Len(options) |->
               <<(IF i <= 4 THEN letters[i] ELSE "undefined"), ")", " ">>
                   \o CellText(options[i])])

(* The two regular expressions of extractOptionsFromHtml, with the closing *)
(* token after the option letter exactly as line 398 and line 400 have it. *)

CloseToken ==
    <<"K", "A", "T", "E", "X", "_", "I", "N", "L", "I", "N", "E", "_",
      "C", "L", "O", "S", "E">>

LabelMatch(s) ==
    LET k == LeadingSpace(s)
        r == Drop(s, k)
    IN  IF /\ Len(r) >= Len(CloseToken) + 2
           /\ Head(r) \in {"A", "B", "C", "D"}
           /\ StartsWith(Tail(r), CloseToken)
           /\ r[Len(CloseToken) + 2] \in Whitespace
        THEN k + Len(CloseToken) + 2
        ELSE 0

LineMatch(s) ==
    LET k == LeadingSpace(s)
        ends == {i \in 1..k : s[i] \in {"\n", "\r"}}
    IN  IF ends = {} THEN 0 ELSE CHOOSE i \in ends : \A j \in ends : j <= i

RECURSIVE SplitAcc(_, _, _)
SplitAcc(s, cur, byLabel) ==
    IF s = <<>> THEN <<cur>>
    ELSE LET n == IF byLabel THEN LabelMatch(s) ELSE LineMatch(s)
         IN  IF n > 0 THEN <<cur>> \o SplitAcc(Drop(s, n), <<>>, byLabel)
             ELSE SplitAcc(Tail(s), Append(cur, Head(s)), byLabel)

split(s, byLabel) == IF s = <<>> THEN <<<<>>>> ELSE SplitAcc(s, <<>>, byLabel)

NonEmpty(ss) == SelectSeq(ss, LAMBDA x : x # <<>>)

StripLabel(s) ==
    IF /\ Len(s) >= Len(CloseToken) + 1
       /\ Head(s) \in {"A", "B", "C", "D"}
       /\ StartsWith(Tail(s), CloseToken)
    THEN LET r == Drop(s, Len(CloseToken) + 1) IN Drop(r, LeadingSpace(r))
    ELSE s

extractOptionsFromHtml(text) ==
    LET parts == NonEmpty(split(text, TRUE))
        lines == split(text, FALSE)
        stripped == NonEmpty([i \in 1..Len(lines) |-> StripLabel(lines[i])])
    IN  IF Len(parts) = 4 THEN [i \in 1..4 |-> trim(parts[i])]
        ELSE SubSeq(stripped, 1, IF Len(stripped) < 4 THEN Len(stripped) ELSE 4)

OrEmpty(ss, i) == IF i \in 1..Len(ss) THEN ss[i] ELSE <<>>

(* Inputs of the admin page. *)

Filters == {"All", "Physics"}

EditSubjects == {"Physics", "Chemistry", "Botany", "Zoology", "Mental Agility Test"}

Difficulties == {"Easy", "Medium", "Hard"}

AdminQuestion(i) ==
    [id |-> i, subject |-> "Physics", question |-> <<"q", "?">>,
     options |-> << <<"a">>, <<"b", "&">>, <<"c">>, <<"d">> >>,
     answer |-> <<"a">>, difficulty |-> "Medium", explanation |-> <<>>]

ListResponses ==
    {[kind |-> "reject", questions |-> <<>>]}
    \cup {[kind |-> "json", questions |-> [i \in 1..n |-> AdminQuestion(i)]] : n \in 0..MaxRows}

MutationResponses ==
    {[kind |-> "reject", ok |-> FALSE, error |-> ""]}
    \cup [kind : {"json"}, ok : BOOLEAN, error : {"", "Denied"}]

CsvResponses ==
    {[kind |-> "reject", ok |-> FALSE, error |-> "", errors |-> 0]}
    \cup [kind : {"json"}, ok : BOOLEAN, error : {"", "Bad file"}, errors : {0, 4}]

Typed == {<<>>, <<" ">>, <<" ", "x">>}

(* Rows of the table. *)

NoDraft ==
    [subject |-> "", question |-> <<>>, opts |-> <<>>, answerValues |-> <<>>,
     answerIdx |-> 0, difficulty |-> "", explanation |-> <<>>]

ViewRow(q) ==
    [id |-> q.id, mode |-> "view",
     cells |-> [subject |-> q.subject, question |-> CellText(q.question),
                options |-> OptionsCellText(q.options), answer |-> CellText(q.answer),
                difficulty |-> q.difficulty, explanation |-> CellText(q.explanation)],
     draft |-> NoDraft]

escapeTextarea(str) == replaceAll(replaceAll(str, "<", lt), ">", gt)

TextareaValue(str) == DecodeEntities(escapeTextarea(str))

DraftOf(cells) ==
    LET question == trim(cells.question)
        opts == extractOptionsFromHtml(cells.options)
        answer == trim(cells.answer)
        hits == {i \in 1..4 : OrEmpty(opts, i) = answer}
    IN  [subject |-> IF cells.subject \in EditSubjects THEN cells.subject ELSE "Physics",
         question |-> TextareaValue(question),
         opts |-> [i \in 1..4 |-> InputValue(OrEmpty(opts, i))],
         answerValues |-> [i \in 1..4 |-> InputValue(OrEmpty(opts, i))],
         answerIdx |-> IF hits = {} THEN 1 ELSE CHOOSE i \in hits : \A j \in hits : j <= i,
         difficulty |-> IF cells.difficulty \in Difficulties THEN cells.difficulty ELSE "Easy",
         explanation |-> TextareaValue(trim(cells.explanation))]

(* Requests. *)

Total(counts) == counts.update + counts.delete + counts.add + counts.csv

loadQuestions(f) ==
    /\ issued' = issued + 1
    /\ lists' = lists \cup {[seq |-> issued + 1, subject |-> IF f = "" THEN "All" ELSE f]}

send(kind, request) ==
    /\ sent' = [sent EXCEPT ![kind] = @ + 1]
    /\ pending' = [pending EXCEPT ![kind] = @ + 1]
    /\ lastReq' = request

alert(text) == dialog' = [dialog EXCEPT !.alert = text]

AdminAlive == dataset.page = "admin"

renderTable(rows, req) ==
    table' = IF Len(rows) = 0
             THEN [kind |-> "No questions found.", req |-> req, rows |-> <<>>]
             ELSE [kind |-> "rows", req |-> req,
                   rows |-> [i \in 1..Len(rows) |-> ViewRow(rows[i])]]

ListResponse(req, resp) ==
    /\ AdminAlive
    /\ req \in lists
    /\ lists' = lists \ {req}
    /\ IF resp.kind = "reject"
       THEN table' = [kind |-> "Error loading questions", req |-> req.seq, rows |-> <<>>]
       ELSE renderTable(resp.questions, req.seq)
    /\ UNCHANGED <<dataset, quiz, calc, filter, issued, sent, lastReq, pending,
                   addForm, csvForm, dialog>>

FilterChange(f) ==
    /\ AdminAlive
    /\ issued < MaxLists
    /\ f # filter
    /\ filter' = f
    /\ loadQuestions(f)
    /\ UNCHANGED <<dataset, quiz, calc, table, sent, lastReq, pending, addForm,
                   csvForm, dialog>>

RefreshClick ==
    /\ AdminAlive
    /\ issued < MaxLists
    /\ loadQuestions(filter)
    /\ UNCHANGED <<dataset, quiz, calc, filter, table, sent, lastReq, pending,
                   addForm, csvForm, dialog>>

(* Delete. *)

onDeleteUnconfirmed(r, confirmed) ==
    /\ AdminAlive
    /\ r \in 1..Len(table.rows)
    /\ table.rows[r].mode = "view"
    /\ dialog' = [dialog EXCEPT !.confirm = IF confirmed THEN "ok" ELSE "cancel"]
    /\ Total(sent) < MaxMutations
    /\ send("delete", [url |-> "/admin/delete_question",
                       body |-> [id |-> table.rows[r].id]])
    /\ UNCHANGED <<dataset, quiz, calc, filter, table, lists, issued, addForm, csvForm>>

onDelete(r, confirmed) ==
    /\ AdminAlive
    /\ r \in 1..Len(table.rows)
    /\ table.rows[r].mode = "view"
    /\ dialog' = [dialog EXCEPT !.confirm = IF confirmed THEN "ok" ELSE "cancel"]
    /\ IF confirmed
       THEN /\ Total(sent) < MaxMutations
            /\ send("delete", [url |-> "/admin/delete_question",
                               body |-> [id |-> table.rows[r].id]])
       ELSE UNCHANGED <<sent, lastReq, pending>>
    /\ UNCHANGED <<dataset, quiz, calc, filter, table, lists, issued, addForm, csvForm>>

MutationResponse(kind, data, failed) ==
    /\ AdminAlive
    /\ pending[kind] > 0
    /\ pending' = [pending EXCEPT ![kind] = @ - 1]
    /\ IF data.kind = "json" /\ data.ok
       THEN /\ issued < MaxLists
            /\ loadQuestions(filter)
            /\ UNCHANGED dialog
       ELSE /\ alert(IF data.kind = "reject" THEN "Network error"
                     ELSE IF data.error # "" THEN data.error ELSE failed)
            /\ UNCHANGED <<lists, issued>>
    /\ UNCHANGED <<dataset, quiz, calc, filter, table, sent, lastReq, csvForm>>

DeleteResponse(data) ==
    /\ MutationResponse("delete", data, "Delete failed")
    /\ UNCHANGED addForm

(* Inline edit. *)

onEdit(r) ==
    /\ AdminAlive
    /\ r \in 1..Len(table.rows)
    /\ table.rows[r].mode = "view"
    /\ table' = [table EXCEPT !.rows[r] =
                    [@ EXCEPT !.mode = "edit", !.draft = DraftOf(table.rows[r].cells)]]
    /\ UNCHANGED <<dataset, quiz, calc, filter, lists, issued, sent, lastReq, pending,
                   addForm, csvForm, dialog>>

CancelClick(r) ==
    /\ AdminAlive
    /\ r \in 1..Len(table.rows)
    /\ table.rows[r].mode = "edit"
    /\ issued < MaxLists
    /\ loadQuestions(filter)
    /\ UNCHANGED <<dataset, quiz, calc, filter, table, sent, lastReq, pending,
                   addForm, csvForm, dialog>>

Includes(ss, x) == \E i \in 1..Len(ss) : ss[i] = x

UpdateBodyUntrimmed(id, draft) ==
    [id |-> id,
     subject |-> draft.subject,
     question |-> draft.question,
     options |-> draft.opts,
     answer |-> draft.answerValues[draft.answerIdx],
     difficulty |-> draft.difficulty,
     explanation |-> draft.explanation]

UpdateBody(id, draft) ==
    [id |-> id,
     subject |-> draft.subject,
     question |-> trim(draft.question),
     options |-> [i \in 1..Len(draft.opts) |-> trim(draft.opts[i])],
     answer |-> draft.answerValues[draft.answerIdx],
     difficulty |-> draft.difficulty,
     explanation |-> draft.explanation]

SaveClick(r) ==
    /\ AdminAlive
    /\ r \in 1..Len(table.rows)
    /\ table.rows[r].mode = "edit"
    /\ LET new == UpdateBody(table.rows[r].id, table.rows[r].draft)
       IN  IF Len(new.options) # 4 \/ \E i \in 1..Len(new.options) : new.options[i] = <<>>
           THEN alert("Please provide four options.") /\ UNCHANGED <<sent, lastReq, pending>>
           ELSE IF new.question = <<>>
           THEN alert("Question cannot be empty.") /\ UNCHANGED <<sent, lastReq, pending>>
           ELSE IF ~Includes(new.options, new.answer)
           THEN alert("Correct answer must match an option.")
                    /\ UNCHANGED <<sent, lastReq, pending>>
           ELSE /\ Total(sent) < MaxMutations
                /\ send("update", [url |-> "/admin/update_question", body |-> new])
                /\ UNCHANGED dialog
    /\ UNCHANGED <<dataset, quiz, calc, filter, table, lists, issued, addForm, csvForm>>

UpdateResponse(data) ==
    /\ MutationResponse("update", data, "Update failed")
    /\ UNCHANGED addForm

TypeQuestion(r, text) ==
    /\ AdminAlive
    /\ r \in 1..Len(table.rows)
    /\ table.rows[r].mode = "edit"
    /\ table.rows[r].draft.question # text
    /\ table' = [table EXCEPT !.rows[r].draft.question = text]
    /\ UNCHANGED <<dataset, quiz, calc, filter, lists, issued, sent, lastReq, pending,
                   addForm, csvForm, dialog>>

TypeOption(r, i, text) ==
    /\ AdminAlive
    /\ r \in 1..Len(table.rows)
    /\ table.rows[r].mode = "edit"
    /\ table.rows[r].draft.opts[i] # text
    /\ table' = [table EXCEPT !.rows[r].draft.opts[i] = text]
    /\ UNCHANGED <<dataset, quiz, calc, filter, lists, issued, sent, lastReq, pending,
                   addForm, csvForm, dialog>>

ChooseAnswer(r, i) ==
    /\ AdminAlive
    /\ r \in 1..Len(table.rows)
    /\ table.rows[r].mode = "edit"
    /\ table.rows[r].draft.answerIdx # i
    /\ table' = [table EXCEPT !.rows[r].draft.answerIdx = i]
    /\ UNCHANGED <<dataset, quiz, calc, filter, lists, issued, sent, lastReq, pending,
                   addForm, csvForm, dialog>>

(* Add question form. *)

Letters == <<"A", "B", "C", "D">>

indexOf(ss, x) == IF Includes(ss, x) THEN CHOOSE i \in 1..Len(ss) : ss[i] = x ELSE 0

AddBody(form) ==
    LET options == [i \in 1..4 |-> trim(form.options[i])]
        at == indexOf(Letters, form.answer)
    IN  [subject |-> form.subject,
         question |-> trim(form.question),
         options |-> options,
         answer |-> IF at = 0 THEN <<>> ELSE options[at],
         difficulty |-> form.difficulty,
         explanation |-> trim(form.explanation)]

TypeAddQuestion(text) ==
    /\ AdminAlive
    /\ addForm.question # text
    /\ addForm' = [addForm EXCEPT !.question = text]
    /\ UNCHANGED <<dataset, quiz, calc, filter, table, lists, issued, sent, lastReq,
                   pending, csvForm, dialog>>

TypeAddOption(i, text) ==
    /\ AdminAlive
    /\ addForm.options[i] # text
    /\ addForm' = [addForm EXCEPT !.options[i] = text]
    /\ UNCHANGED <<dataset, quiz, calc, filter, table, lists, issued, sent, lastReq,
                   pending, csvForm, dialog>>

ChooseAddAnswer(letter) ==
    /\ AdminAlive
    /\ addForm.answer # letter
    /\ addForm' = [addForm EXCEPT !.answer = letter]
    /\ UNCHANGED <<dataset, quiz, calc, filter, table, lists, issued, sent, lastReq,
                   pending, csvForm, dialog>>

AddSubmit ==
    /\ AdminAlive
    /\ LET new == AddBody(addForm)
       IN  IF \/ new.question = <<>>
              \/ \E i \in 1..4 : new.options[i] = <<>>
              \/ new.answer = <<>>
           THEN /\ alert("Please fill question, all four options, and correct answer.")
                /\ UNCHANGED <<sent, lastReq, pending>>
           ELSE /\ Total(sent) < MaxMutations
                /\ send("add", [url |-> "/admin/add_question", body |-> new])
                /\ UNCHANGED dialog
    /\ UNCHANGED <<dataset, quiz, calc, filter, table, lists, issued, addForm, csvForm>>

AddResponseResetAlways(data) ==
    /\ MutationResponse("add", data, "Add failed")
    /\ addForm' = EmptyForm

AddResponse(data) ==
    /\ MutationResponse("add", data, "Add failed")
    /\ addForm' = IF data.kind = "json" /\ data.ok THEN EmptyForm ELSE addForm

(* CSV import. *)

ChooseCsv ==
    /\ AdminAlive
    /\ ~csvForm.file
    /\ csvForm' = [csvForm EXCEPT !.file = TRUE]
    /\ UNCHANGED <<dataset, quiz, calc, filter, table, lists, issued, sent, lastReq,
                   pending, addForm, dialog>>

CsvSubmit ==
    /\ AdminAlive
    /\ IF ~csvForm.file
       THEN /\ alert("Please choose a CSV file.")
            /\ UNCHANGED <<sent, lastReq, pending, csvForm>>
       ELSE /\ Total(sent) < MaxMutations
            /\ csvForm' = [csvForm EXCEPT !.result = "Uploading and importing..."]
            /\ send("csv", [url |-> "/admin/upload_csv", body |-> "file"])
            /\ UNCHANGED dialog
    /\ UNCHANGED <<dataset, quiz, calc, filter, table, lists, issued, addForm>>

CsvResponse(data) ==
    /\ AdminAlive
    /\ pending.csv > 0
    /\ pending' = [pending EXCEPT !.csv = @ - 1]
    /\ IF data.kind = "json" /\ data.ok
       THEN /\ issued < MaxLists
            /\ csvForm' = [csvForm EXCEPT !.result =
                    "Imported: 1 added, 0 skipped."
                    \o (IF data.errors > 0 THEN " Errors: e | e | e" ELSE "")
                    \o (IF data.errors > 3 THEN " ..." ELSE "")]
            /\ loadQuestions(filter)
       ELSE /\ csvForm' = [csvForm EXCEPT !.result =
                    IF data.kind = "reject" THEN "Network error during upload."
                    ELSE IF data.error # "" THEN data.error ELSE "Import failed."]
            /\ UNCHANGED <<lists, issued>>
    /\ UNCHANGED <<dataset, quiz, calc, filter, table, sent, lastReq, addForm, dialog>>

(* Specifications of the admin page. *)

InitAdmin ==
    /\ dataset = [page |-> "admin", quizId |-> "", total |-> 0, timerSeconds |-> 0]
    /\ QuizOff
    /\ calc = NoCalc
    /\ filter = "All"
    /\ table = [kind |-> "markup", req |-> 0, rows |-> <<>>]
    /\ lists = {[seq |-> 1, subject |-> "All"]}
    /\ issued = 1
    /\ sent = NoCounts
    /\ lastReq = NoRequest
    /\ pending = NoCounts
    /\ addForm = EmptyForm
    /\ csvForm = [file |-> FALSE, result |-> ""]
    /\ dialog = [alert |-> "none", confirm |-> "none"]

NextAdmin ==
    \/ \E req \in lists, resp \in ListResponses : ListResponse(req, resp)
    \/ \E f \in Filters : FilterChange(f)
    \/ RefreshClick
    \/ \E r \in 1..MaxRows, confirmed \in BOOLEAN : onDelete(r, confirmed)
    \/ \E data \in MutationResponses : DeleteResponse(data)
    \/ \E r \in 1..MaxRows : onEdit(r)
    \/ \E r \in 1..MaxRows : CancelClick(r)
    \/ \E r \in 1..MaxRows : SaveClick(r)
    \/ AddSubmit

SpecAdmin == InitAdmin /\ [][NextAdmin]_vars

NextCsv ==
    \/ ChooseCsv
    \/ CsvSubmit
    \/ \E data \in CsvResponses : CsvResponse(data)
    \/ \E req \in lists, resp \in ListResponses : ListResponse(req, resp)

SpecCsv == InitAdmin /\ [][NextCsv]_vars

InitEditing ==
    /\ dataset = [page |-> "admin", quizId |-> "", total |-> 0, timerSeconds |-> 0]
    /\ QuizOff
    /\ calc = NoCalc
    /\ filter = "All"
    /\ table = [kind |-> "rows", req |-> 1,
                 rows |-> << [ViewRow(AdminQuestion(1)) EXCEPT
                                 !.mode = "edit",
                                 !.draft = DraftOf(ViewRow(AdminQuestion(1)).cells)] >>]
    /\ lists = {}
    /\ issued = 1
    /\ sent = NoCounts
    /\ lastReq = NoRequest
    /\ pending = NoCounts
    /\ addForm = EmptyForm
    /\ csvForm = [file |-> FALSE, result |-> ""]
    /\ dialog = [alert |-> "none", confirm |-> "none"]

NextSave ==
    \/ \E text \in Typed : TypeQuestion(1, text)
    \/ \E i \in 1..4, text \in Typed : TypeOption(1, i, text)
    \/ \E i \in 1..4 : ChooseAnswer(1, i)
    \/ SaveClick(1)
    \/ \E data \in MutationResponses : UpdateResponse(data)
    \/ \E req \in lists, resp \in ListResponses : ListResponse(req, resp)

SpecSave == InitEditing /\ [][NextSave]_vars

NextAdd ==
    \/ \E text \in Typed : TypeAddQuestion(text)
    \/ \E i \in 1..4, text \in Typed : TypeAddOption(i, text)
    \/ \E letter \in {"A", "B", "C", "D"} : ChooseAddAnswer(letter)
    \/ AddSubmit
    \/ \E data \in MutationResponses : AddResponse(data)
    \/ \E req \in lists, resp \in ListResponses : ListResponse(req, resp)

SpecAdd == InitAdmin /\ [][NextAdd]_vars

(* ------------------------------- properties ---------------------------- *)

Loaded == questions.type = "array" /\ questions.length > 0

Placeholder ==
    questionArea.kind \in {"No questions could be loaded.", "Error loading questions."}

(* C1: in one quiz session at most one POST /submit is ever sent, whatever *)
(* the sequence of Submit clicks and timer ticks.                          *)
AtMostOneSubmit == posts <= 1

(* C2: once the question fetch has failed or returned an empty or          *)
(* malformed list (the placeholder is shown), no timer is ever started and *)
(* no POST /submit is ever sent.                                           *)
NothingAfterFailedLoad ==
    [][Placeholder => ~iv' /\ posts' = posts]_vars

(* C3: once a submission has been triggered, every further timer tick is   *)
(* ignored: the countdown no longer changes and no tick sends a request.   *)
TicksIgnoredAfterSubmit ==
    [][posts > 0 => timerSeconds' = timerSeconds]_vars

(* C4: after a successful non-empty load the current index stays within   *)
(* [0, length-1]; every change of the index is by exactly one, made by an  *)
(* accepted Previous or Next click; Previous at index 0 and Next at the    *)
(* last index leave it unchanged.                                          *)
IndexStaysInRange ==
    /\ [](Loaded => currentIndex \in 0..(questions.length - 1))
    /\ [][Loaded =>
            /\ currentIndex' - currentIndex \in {0 - 1, 0, 1}
            /\ (currentIndex' = currentIndex - 1 => PrevClick)
            /\ (currentIndex' = currentIndex + 1 => NextClick)
            /\ (PrevClick /\ currentIndex = 0 => currentIndex' = 0)
            /\ (NextClick /\ currentIndex = questions.length - 1
                    => currentIndex' = currentIndex)]_vars

IndexWitness ==
    /\ Loaded
    /\ questions.length = MaxQuestions
    /\ currentIndex = 0
    /\ questions.items[MaxQuestions].id \in DOMAIN answers

(* C5: the payload of a submission has an entry for a question exactly     *)
(* when that question has a recorded selection, the entry's value is the   *)
(* recorded option, and unanswered questions are omitted (k answered       *)
(* questions give exactly k entries).                                      *)
PayloadHasOnlyAnswered ==
    [][posts' > posts =>
          /\ body'.quiz_id = dataset.quizId
          /\ \A i \in 1..questions.length :
                LET id == questions.items[i].id
                IN  /\ ToString(id) \in DOMAIN body'.answers <=> id \in DOMAIN answers
                    /\ id \in DOMAIN answers => body'.answers[ToString(id)] = answers[id]
          /\ Cardinality(DOMAIN body'.answers) = Cardinality(DOMAIN answers)]_vars

PayloadWitness ==
    /\ posts > 0
    /\ questions.length = 2
    /\ Cardinality(DOMAIN body.answers) = 1

(* C6: whenever a question is shown, the option recorded for it is the one *)
(* shown selected (and no option is shown selected when none is recorded), *)
(* so returning to an answered question restores its selection.            *)
SelectionRestored ==
    questionArea.kind = "question" =>
        /\ Loaded
        /\ questionArea.num = currentIndex + 1
        /\ LET q == questions.items[currentIndex + 1]
               on == {i \in 1..Len(questionArea.radios) : questionArea.radios[i].checked}
           IN  /\ questionArea.q = q.id
               /\ Len(questionArea.radios) = Len(q.options)
               /\ IF q.id \in DOMAIN answers
                  THEN \E i \in 1..Len(q.options) :
                          /\ on = {i}
                          /\ q.options[i] = answers[q.id]
                          /\ questionArea.radios[i].value = answers[q.id]
                  ELSE on = {}

SelectionWitness ==
    /\ questionArea.kind = "question"
    /\ questions.length = 2
    /\ currentIndex = 0
    /\ DOMAIN answers = {questions.items[1].id, questions.items[2].id}
    /\ answers[questions.items[1].id] = questions.items[1].options[2]
    /\ questionArea.radios[2].checked

(* C7: a selection changes only the entry of the question shown at the     *)
(* current index, setting it to the selected option; every other entry is  *)
(* unchanged and no step removes an entry from the answers mapping.        *)
AnswersOnlyGrow ==
    [][/\ DOMAIN answers \subseteq DOMAIN answers'
       /\ \A k \in DOMAIN answers :
             answers'[k] # answers[k] =>
                 Loaded /\ k = questions.items[currentIndex + 1].id
       /\ answers' # answers =>
             /\ Loaded
             /\ DOMAIN answers' = DOMAIN answers \cup {questions.items[currentIndex + 1].id}
             /\ answers'[questions.items[currentIndex + 1].id]
                    \in {questions.items[currentIndex + 1].options[i] : i \in 1..NumOptions}
             /\ UNCHANGED <<questions, currentIndex>>]_vars

AnswersWitness ==
    /\ Loaded
    /\ questions.length = 2
    /\ DOMAIN answers = {questions.items[1].id, questions.items[2].id}
    /\ currentIndex = 1
    /\ answers[questions.items[2].id] = questions.items[2].options[2]

(* C8: the countdown starts at the configured duration and changes only by *)
(* a timer tick, by exactly 1; the tick that brings it to zero or below    *)
(* stops the timer and sends exactly one submission, and a stopped timer   *)
(* never ticks or starts again.                                            *)
CountdownToExpiry ==
    [][/\ (iv' /\ ~iv => fetchPending /\ timerSeconds' = dataset.timerSeconds)
       /\ (timerSeconds' # timerSeconds =>
              /\ iv
              /\ timerSeconds' = timerSeconds - 1
              /\ IF timerSeconds' <= 0
                 THEN ~iv' /\ posts' = posts + 1
                 ELSE iv' /\ posts' = posts)
       /\ (~iv /\ ~fetchPending => ~iv' /\ timerSeconds' = timerSeconds)
       /\ (iv => Tick \/ timerSeconds' = timerSeconds)]_vars

CountdownWitness ==
    /\ dataset.timerSeconds = MaxDuration
    /\ timerSeconds = 0
    /\ ~iv
    /\ posts = 1

(* C9: a submission response that is ok and has a redirect target makes    *)
(* the browser navigate there; every other outcome surfaces an error       *)
(* message (the server's, or a generic fallback) and does not navigate.    *)
ResponseHandled ==
    [][\A data \in SubmitResponses :
          SubmitResponse(data) =>
              IF data.kind = "json" /\ data.ok /\ data.redirect # ""
              THEN location' = data.redirect /\ alerted' = alerted
              ELSE /\ location' = location
                   /\ alerted' # "none"
                   /\ alerted' = (IF data.kind = "json" /\ data.error # ""
                                  THEN data.error
                                  ELSE IF data.kind = "json" THEN "Submission failed."
                                  ELSE "Network error while submitting.")]_vars

ResponseWitness ==
    /\ location = "/result"
    /\ alerted = "Submission failed."

(* C10: whenever the timer display shows a remaining value below 30 it has *)
(* the urgent style, and once applied the urgent style is never removed.   *)
UrgentStyleSticks ==
    /\ [](\A n \in (0 - 1)..(UrgentBelow - 1) :
             timerEl.textContent = formatDuration(n) => timerEl.urgent)
    /\ [][timerEl.urgent => timerEl.urgent']_vars

UrgentWitness ==
    /\ dataset.timerSeconds = UrgentBelow + 1
    /\ timerEl.textContent = formatDuration(UrgentBelow - 1)
    /\ timerEl.urgent

(* C11: for every index in [0, length-1] the displayed percentage is       *)
(* index/length as a (whole) percentage: 0% on the first question and      *)
(* strictly below 100% on every question, the last included.               *)
ProgressBelowHundred ==
    calc.fn = "Percent" /\ calc.done =>
        LET index == calc.arg[1]
            length == calc.arg[2]
            off == calc.out * length - 100 * index
        IN  /\ 2 * off <= length
            /\ 0 - length <= 2 * off
            /\ (index = 0 => calc.out = 0)
            /\ (index = 4 /\ length = 5 => calc.out = 80)
            /\ calc.out < 100

(* C11 as amended: the displayed percentage is index/length*100 rounded to *)
(* a whole number: 0% on the first question, strictly below 100% on every  *)
(* question of a list of fewer than 200 questions, and 100% on the last    *)
(* question of a list of 200 or more.                                      *)
ProgressRounded ==
    calc.fn = "Percent" /\ calc.done =>
        LET index == calc.arg[1]
            length == calc.arg[2]
            off == calc.out * length - 100 * index
        IN  /\ 2 * off <= length
            /\ 0 - length <= 2 * off
            /\ (index = 0 => calc.out = 0)
            /\ (index = 4 /\ length = 5 => calc.out = 80)
            /\ (length < 200 => calc.out < 100)
            /\ (length >= 200 /\ index = length - 1 => calc.out = 100)

ProgressWitness ==
    /\ calc.fn = "Percent"
    /\ calc.done
    /\ calc.arg = <<199, 200>>
    /\ calc.out = 100

(* C12: for every non-negative whole number of seconds the timer text is   *)
(* M:SS when the hour component is zero and H:MM:SS otherwise, with hours  *)
(* (or minutes, in M:SS) unpadded and the following fields two digits.     *)
DurationFormat ==
    LET TwoDigits(n) == ToString(n \div 10) \o ToString(n % 10)
        ClockText(n) ==
            IF n < 3600
            THEN ToString(n \div 60) \o ":" \o TwoDigits(n % 60)
            ELSE ToString(n \div 3600) \o ":" \o TwoDigits((n \div 60) % 60)
                     \o ":" \o TwoDigits(n % 60)
    IN  calc.fn = "formatDuration" /\ calc.done =>
            /\ calc.out = ClockText(calc.arg)
            /\ (calc.arg = 45 => calc.out = "0:45")
            /\ (calc.arg = 3661 => calc.out = "1:01:01")

DurationWitness ==
    /\ calc.fn = "formatDuration"
    /\ calc.done
    /\ calc.arg = 3661
    /\ calc.out = "1:01:01"

(* C17: whenever a question is rendered exactly one of Next and Submit is  *)
(* shown, Next exactly below the last index and Submit exactly at it, and  *)
(* Previous is disabled exactly at index 0.                                *)
ButtonsMatchIndex ==
    questionArea.kind = "question" =>
        /\ Loaded
        /\ (nextBtn.display # "none") # (submitBtn.display # "none")
        /\ (nextBtn.display # "none" <=> currentIndex < questions.length - 1)
        /\ (submitBtn.display # "none" <=> currentIndex = questions.length - 1)
        /\ (prevBtn.disabled <=> currentIndex = 0)

ButtonsWitness ==
    /\ questionArea.kind = "question"
    /\ questions.length = 2
    /\ currentIndex = 0
    /\ nextBtn.display = "inline-flex"
    /\ submitBtn.display = "none"
    /\ prevBtn.disabled
    /\ questions.items[2].id \in DOMAIN answers

(* C19: under fair timer ticking, every session that reaches Active        *)
(* (successful non-empty load) eventually sends a submission.              *)
EventuallySubmits == Loaded ~> (posts > 0)

EventuallyWitness ==
    /\ Loaded
    /\ questions.length = 2
    /\ currentIndex = 0
    /\ answers = <<>>
    /\ dataset.timerSeconds = MaxDuration
    /\ timerSeconds = 0
    /\ posts = 1
    /\ awaiting = 1

(* C20: every key of the answers mapping is the identifier of a fetched    *)
(* question and its value is one of that question's options.               *)
AnswersAreOptions ==
    \A k \in DOMAIN answers :
        /\ questions.type = "array"
        /\ \E i \in 1..questions.length :
              /\ questions.items[i].id = k
              /\ \E j \in 1..Len(questions.items[i].options) :
                    answers[k] = questions.items[i].options[j]

AnswersAreOptionsWitness ==
    /\ Loaded
    /\ questions.length = 2
    /\ Cardinality(DOMAIN answers) = 2
    /\ answers[questions.items[2].id] = <<"&", "l", "t", ";">>
    /\ posts = 0

Editing == {r \in 1..Len(table.rows) : table.rows[r].mode = "edit"}

(* C14: at every moment at most one row of the admin table is in the
   editing sub-state. *)
AtMostOneEditing == Cardinality(Editing) <= 1

(* C15: a delete request is sent only by a Delete click the user confirmed
   and names the clicked row; a declined Delete click sends nothing and
   leaves the table alone; the delete response reloads the list exactly when
   the server answered ok. *)
DeleteNeedsConfirm ==
    [][ /\ \A r \in 1..MaxRows, confirmed \in BOOLEAN :
              onDelete(r, confirmed) =>
                  /\ (sent'.delete = sent.delete + 1) <=> confirmed
                  /\ confirmed => lastReq'.body.id = table.rows[r].id
                  /\ ~confirmed => UNCHANGED <<table, sent, pending, lastReq, lists, issued>>
        /\ sent'.delete # sent.delete =>
              /\ dialog'.confirm = "ok"
              /\ \E r \in 1..MaxRows : onDelete(r, TRUE)
        /\ \A data \in MutationResponses :
              DeleteResponse(data) =>
                  ((issued' = issued + 1) <=> (data.kind = "json" /\ data.ok))
      ]_vars

DeleteWitness ==
    /\ dialog.confirm = "ok"
    /\ sent.delete = 1
    /\ pending.delete = 0
    /\ lastReq = [url |-> "/admin/delete_question", body |-> [id |-> 2]]
    /\ issued = 2

(* C18: once every pending list response has arrived, the rendered table is
   the response to the most recently issued list request. *)
LatestListShown == lists = {} => table.req = issued

SaveMessages ==
    {"Please provide four options.", "Question cannot be empty.",
     "Correct answer must match an option."}

(* C13 as stated: Save sends the update request if and only if the draft's
   four options and question text are non-empty strings and the answer is
   one of the four options, and the request carries the draft's values as
   they are. *)
SaveSendsDraftAsIs ==
    [][ SaveClick(1) =>
          LET draft == table.rows[1].draft
              answer == draft.answerValues[draft.answerIdx]
              valid == /\ \A i \in 1..4 : draft.opts[i] # <<>>
                       /\ draft.question # <<>>
                       /\ Includes(draft.opts, answer)
          IN  /\ (sent'.update = sent.update + 1) <=> valid
              /\ valid => lastReq'.body =
                    [id |-> table.rows[1].id, subject |-> draft.subject,
                     question |-> draft.question, options |-> draft.opts,
                     answer |-> answer, difficulty |-> draft.difficulty,
                     explanation |-> draft.explanation]
      ]_vars

(* C13, amended: Save sends the update request if and only if, after
   trimming the question text and each option, the four options and the
   question are non-empty and the answer is one of the trimmed options; a
   validation failure sends nothing, shows a message and leaves the row
   editing with its draft; the request carries the trimmed question and
   options and the draft's other values. *)
SaveSendsTrimmedDraft ==
    [][ SaveClick(1) =>
          LET draft == table.rows[1].draft
              question == trim(draft.question)
              options == [i \in 1..4 |-> trim(draft.opts[i])]
              answer == draft.answerValues[draft.answerIdx]
              valid == /\ \A i \in 1..4 : options[i] # <<>>
                       /\ question # <<>>
                       /\ Includes(options, answer)
          IN  /\ (sent'.update = sent.update + 1) <=> valid
              /\ table' = table
              /\ ~valid => /\ UNCHANGED <<sent, pending, lastReq, lists, issued>>
                            /\ dialog'.alert \in SaveMessages
              /\ valid => lastReq' =
                    [url |-> "/admin/update_question",
                     body |-> [id |-> table.rows[1].id, subject |-> draft.subject,
                               question |-> question, options |-> options,
                               answer |-> answer, difficulty |-> draft.difficulty,
                               explanation |-> draft.explanation]]
      ]_vars

SaveWitness ==
    /\ sent.update = 1
    /\ table.kind = "rows"
    /\ table.rows[1].mode = "edit"
    /\ table.rows[1].draft.question = <<" ", "x">>
    /\ table.rows[1].draft.opts[2] = <<" ", "x">>
    /\ lastReq.url = "/admin/update_question"
    /\ lastReq.body.question = <<"x">>
    /\ lastReq.body.options[2] = <<"x">>

OkResponses == {data \in MutationResponses : data.kind = "json" /\ data.ok}

(* C16: an add request is sent only when the question text and all four
   options are non-empty and the answer is one of the four options sent;
   the submit handler never changes the form; the form is cleared and the
   list reloaded by an ok response and by nothing else; after an ok:false
   response or a network failure the form is as it was. *)
AddOnlyWhenValid ==
    [][ /\ AddSubmit =>
              /\ addForm' = addForm
              /\ issued' = issued
              /\ sent'.add # sent.add =>
                    /\ addForm.question # <<>>
                    /\ \A i \in 1..4 : addForm.options[i] # <<>>
                    /\ Includes(lastReq'.body.options, lastReq'.body.answer)
                    /\ lastReq'.body.answer # <<>>
              /\ sent'.add = sent.add => dialog'.alert =
                    "Please fill question, all four options, and correct answer."
        /\ \A data \in MutationResponses :
              AddResponse(data) =>
                  IF data \in OkResponses
                  THEN addForm' = EmptyForm /\ issued' = issued + 1
                  ELSE /\ addForm' = addForm
                       /\ issued' = issued
                       /\ dialog'.alert \in {"Network error", "Denied", "Add failed"}
        /\ issued' # issued => \E data \in OkResponses : AddResponse(data)
      ]_vars

AddWitness ==
    /\ sent.add = 1
    /\ pending.add = 0
    /\ dialog.alert = "Add failed"
    /\ addForm.question = <<" ", "x">>
    /\ addForm.answer = "B"
    /\ addForm = [EmptyForm EXCEPT !.question = <<" ", "x">>, !.answer = "B",
                     !.options = [i \in 1..4 |-> <<" ", "x">>]]

====
